---- MODULE Spec2Model ----
(***************************************************************************)
(* Model of examples/basic_scraping_ops.rs: the main task, which opens a   *)
(* browser, spawns the task that drives the browser handler, runs three    *)
(* scraping examples one after the other and closes the browser; the       *)
(* spawned task, which loops on handler.next(); and the browser behind the *)
(* chromiumoxide calls, which answers commands, loads pages and emits      *)
(* events on its own schedule.                                             *)
(*                                                                         *)
(* A position of the main task is the number of the source line of the     *)
(* statement it is at.  An awaited browser call takes three steps: the     *)
(* call is issued, the handler delivers its response (or an error), and    *)
(* the main task resumes with it (`?` returns the error from main).        *)
(***************************************************************************)
EXTENDS Integers, Sequences, FiniteSets, TLC

\* Bounds of the model.
MaxEvents == 2      \* events the browser emits on the handler stream
MaxBooks == 2       \* elements matching '.product_pod h3 a' in the catalogue page

VARIABLES
    pc,          \* source line of the statement the main task is at
    phase,       \* "idle" | "pending" | "ok" | "err": the awaited call at pc
    result,      \* "running" | "ok" | "err": what main returned, if it did
    browser,     \* "none" | "open" | "closed" | "dropped": the Browser of line 13
    handle,      \* "none" | "running" | "ended" | "aborted": the task of line 16
    spawned,     \* number of tasks spawned at line 16
    closeCalls,  \* number of browser.close() calls issued (line 44)
    pages,       \* page id -> "Absent" | "Navigating" | "Ready" | "Closed"
    navCount,    \* page id -> number of navigations started on the page
    dom,         \* page id -> navigation whose document the page shows (0: none)
    submitted,   \* page id -> the form submit ran and its navigation has not started
    doc,         \* elements matching '.product_pod h3 a' in the page of extract_books
    queue,       \* events in the handler stream, not yet taken by handler.next()
    emitted,     \* events emitted by the browser so far
    consumed,    \* events taken by the loop of line 17
    log,         \* the awaited browser calls issued by main, in order
    value,       \* the value of the last evaluate
    files,       \* number of files written by std::fs::write (line 118)
    ret          \* what the examples and main returned: title, books, error

vars == <<pc, phase, result, browser, handle, spawned, closeCalls, pages, navCount,
          dom, submitted, doc, queue, emitted, consumed, log, value, files, ret>>

Pages == 1..3       \* the page of wikipedia_search, take_screenshot, extract_books

----------------------------------------------------------------------------
\* The program text: which statement sits at which line.

\* Lines holding an awaited command of the browser or of a page.
CmdLines == {65, 71, 72, 79, 82, 87, 90, 98, 106, 117, 127, 133, 44}

\* Lines holding page.wait_for_navigation().await?.
WaitLines == {68, 95, 109, 130}

\* Lines holding async_std::task::sleep(..).await.
SleepLines == {75, 84, 112}

\* Lines holding .into_value()?.
DecodeLines == {99, 139}

AwaitLines == CmdLines \cup WaitLines

\* The method called at an awaited line.
OpAt(l) ==
    CASE l \in {65, 106, 127} -> "new_page"
      [] l \in WaitLines -> "wait_for_navigation"
      [] l \in {71, 79} -> "find_element"
      [] l \in {72, 82} -> "click"
      [] l = 87 -> "type_str"
      [] l \in {90, 98, 133} -> "evaluate"
      [] l = 117 -> "screenshot"
      [] l = 44 -> "close"

\* The page a line works on: the `page` local of the enclosing function
\* (0: the line works on the browser, not on a page).
PageAt(l) ==
    CASE l \in 63..102 -> 1
      [] l \in 105..122 -> 2
      [] l \in 125..142 -> 3
      [] OTHER -> 0

\* Mutant of HandleAt: line 82 clicks search_button instead of search_input.
HandleAtWrongClick(l) ==
    CASE l \in {71, 72, 82} -> 1
      [] l \in {79, 87} -> 2
      [] OTHER -> 0

\* The element handle a line resolves or acts on: 1 is search_button
\* (line 71), 2 is search_input (line 79), 0 is none.
HandleAt(l) ==
    CASE l \in {71, 72} -> 1
      [] l \in {79, 82, 87} -> 2
      [] OTHER -> 0

\* Mutant of NextLine: take_screenshot does not wait for the navigation (106 -> 112).
NextLineSkipWait(l) ==
    CASE l = 13 -> 65
      [] l = 65 -> 68   [] l = 68 -> 71   [] l = 71 -> 72   [] l = 72 -> 75
      [] l = 75 -> 79   [] l = 79 -> 82   [] l = 82 -> 84   [] l = 84 -> 87
      [] l = 87 -> 90   [] l = 90 -> 95   [] l = 95 -> 98   [] l = 98 -> 99
      [] l = 99 -> 106
      [] l = 106 -> 112 [] l = 109 -> 112 [] l = 112 -> 117 [] l = 117 -> 118
      [] l = 118 -> 127
      [] l = 127 -> 130 [] l = 130 -> 133 [] l = 133 -> 139 [] l = 139 -> 44
      [] l = 44 -> 45   [] l = 45 -> 47
      [] OTHER -> 47

\* Mutant of NextLine: browser.close() is called before extract_books.
NextLineCloseEarly(l) ==
    CASE l = 13 -> 65
      [] l = 65 -> 68   [] l = 68 -> 71   [] l = 71 -> 72   [] l = 72 -> 75
      [] l = 75 -> 79   [] l = 79 -> 82   [] l = 82 -> 84   [] l = 84 -> 87
      [] l = 87 -> 90   [] l = 90 -> 95   [] l = 95 -> 98   [] l = 98 -> 99
      [] l = 99 -> 106
      [] l = 106 -> 109 [] l = 109 -> 112 [] l = 112 -> 117 [] l = 117 -> 118
      [] l = 118 -> 44
      [] l = 127 -> 130 [] l = 130 -> 133 [] l = 133 -> 139 [] l = 139 -> 45
      [] l = 44 -> 127   [] l = 45 -> 47
      [] OTHER -> 47

\* Mutant of NextLine: handle.await is placed before browser.close().
NextLineJoinFirst(l) ==
    CASE l = 13 -> 65
      [] l = 65 -> 68   [] l = 68 -> 71   [] l = 71 -> 72   [] l = 72 -> 75
      [] l = 75 -> 79   [] l = 79 -> 82   [] l = 82 -> 84   [] l = 84 -> 87
      [] l = 87 -> 90   [] l = 90 -> 95   [] l = 95 -> 98   [] l = 98 -> 99
      [] l = 99 -> 106
      [] l = 106 -> 109 [] l = 109 -> 112 [] l = 112 -> 117 [] l = 117 -> 118
      [] l = 118 -> 127
      [] l = 127 -> 130 [] l = 130 -> 133 [] l = 133 -> 139 [] l = 139 -> 45
      [] l = 44 -> 47   [] l = 45 -> 44
      [] OTHER -> 47

\* The statement main runs after the one at line l succeeded.
NextLine(l) ==
    CASE l = 13 -> 65
      [] l = 65 -> 68   [] l = 68 -> 71   [] l = 71 -> 72   [] l = 72 -> 75
      [] l = 75 -> 79   [] l = 79 -> 82   [] l = 82 -> 84   [] l = 84 -> 87
      [] l = 87 -> 90   [] l = 90 -> 95   [] l = 95 -> 98   [] l = 98 -> 99
      [] l = 99 -> 106
      [] l = 106 -> 109 [] l = 109 -> 112 [] l = 112 -> 117 [] l = 117 -> 118
      [] l = 118 -> 127
      [] l = 127 -> 130 [] l = 130 -> 133 [] l = 133 -> 139 [] l = 139 -> 44
      [] l = 44 -> 45   [] l = 45 -> 47
      [] OTHER -> 47

----------------------------------------------------------------------------
\* Values of the page's script engine and their conversion (into_value).

Null == "null"
Titles == {"t1", "t2"}

\* An element matching '.product_pod h3 a': its title attribute, or none.
Elements == [title : Titles \cup {Null}]

RECURSIVE SeqsUpTo(_, _)
SeqsUpTo(S, n) ==
    IF n = 0 THEN {<<>>}
    ELSE LET shorter == SeqsUpTo(S, n - 1)
         IN  shorter \cup {Append(s, x) : s \in {t \in shorter : Len(t) = n - 1}, x \in S}

Docs == SeqsUpTo(Elements, MaxBooks)

Undefined == [kind |-> "undefined", items |-> <<>>]

\* element.getAttribute('title'): the attribute's value, null when absent.
GetAttribute(e) == e.title

\* Mutant of BookTitlesScript: the titles come out in reverse document order.
BookTitlesScriptReversed(d) ==
    [kind |-> "array", items |-> [i \in 1..Len(d) |-> GetAttribute(d[Len(d) + 1 - i])]]

\* Array.from(document.querySelectorAll(..)).map(e => e.getAttribute('title'))
BookTitlesScript(d) == [kind |-> "array", items |-> [i \in 1..Len(d) |-> GetAttribute(d[i])]]

\* document.title of the document of navigation n.
TitleScript(n) == [kind |-> "string", items |-> <<n>>]

\* The value the script of an evaluate line yields on page p.
ScriptValue(l, p) ==
    CASE l = 98 -> TitleScript(dom[p])
      [] l = 133 -> BookTitlesScript(doc)
      [] OTHER -> Undefined

\* title.into_value::<String>() succeeds on a string only.
IntoString(v) == v.kind = "string"

\* books.into_value::<Vec<String>>() succeeds on an array of strings only.
IntoVecString(v) == v.kind = "array" /\ \A i \in 1..Len(v.items) : v.items[i] # Null

IntoValueOk(l, v) == IF l = 99 THEN IntoString(v) ELSE IntoVecString(v)

\* The String that into_value yields for a string value (line 99).
StringOf(v) == v.items[1]

\* The Vec<String> that into_value yields for an array of strings (line 139).
VecStringOf(v) == [i \in 1..Len(v.items) |-> v.items[i]]

\* The error type of main and of the three examples (lines 9, 63, 105, 125):
\* `?` converts whatever error a call gave into it.
BoxDynError == "Box<dyn std::error::Error>"

----------------------------------------------------------------------------
Init ==
    /\ pc = 13
    /\ phase = "idle"
    /\ result = "running"
    /\ browser = "none"
    /\ handle = "none"
    /\ spawned = 0
    /\ closeCalls = 0
    /\ pages = [p \in Pages |-> "Absent"]
    /\ navCount = [p \in Pages |-> 0]
    /\ dom = [p \in Pages |-> 0]
    /\ submitted = [p \in Pages |-> FALSE]
    /\ doc = <<>>
    /\ queue = 0
    /\ emitted = 0
    /\ consumed = 0
    /\ log = <<>>
    /\ value = Undefined
    /\ files = 0
    /\ ret = [title |-> 0, books |-> <<>>, error |-> "none"]

\* Main returns an error through `?`: its locals are dropped (the Browser
\* without a close, the JoinHandle without a join) and the process ends,
\* which ends the spawned task with it.
ReturnErr ==
    /\ result' = "err"
    /\ phase' = "idle"
    /\ browser' = IF browser = "open" THEN "dropped" ELSE browser
    /\ handle' = IF handle = "running" THEN "aborted" ELSE handle
    /\ ret' = [ret EXCEPT !.error = BoxDynError]

\* Mutant of CreateBrowser: the handler task is not spawned.
CreateBrowserNoSpawn ==
    /\ result = "running" /\ pc = 13
    /\ \E ok \in BOOLEAN :
         IF ok
         THEN /\ browser' = "open"
              /\ pc' = NextLine(13)
              /\ UNCHANGED <<phase, result, handle, spawned, ret>>
         ELSE /\ ReturnErr
              /\ UNCHANGED <<pc, spawned>>
    /\ UNCHANGED <<closeCalls, pages, navCount, dom, submitted, doc, queue, emitted,
                   consumed, log, value, files>>

\* Lines 13-21: create_browser().await? launches the browser; on success
\* main spawns the task that loops on handler.next() and goes on to the
\* first example without suspending in between.
CreateBrowser ==
    /\ result = "running" /\ pc = 13
    /\ \E ok \in BOOLEAN :
         IF ok
         THEN /\ browser' = "open"
              /\ handle' = "running"
              /\ spawned' = spawned + 1
              /\ pc' = NextLine(13)
              /\ UNCHANGED <<phase, result, ret>>
         ELSE /\ ReturnErr
              /\ UNCHANGED <<pc, spawned>>
    /\ UNCHANGED <<closeCalls, pages, navCount, dom, submitted, doc, queue, emitted,
                   consumed, log, value, files>>

\* The entry main's call at line l leaves in the log: what is called, on
\* which page and handle, and the state of the page when the call is issued.
Call(l) ==
    [line |-> l, op |-> OpAt(l), page |-> PageAt(l), handle |-> HandleAt(l),
     state |-> IF PageAt(l) \in Pages THEN pages[PageAt(l)] ELSE "Absent",
     nav |-> IF PageAt(l) \in Pages THEN navCount[PageAt(l)] ELSE 0,
     seen |-> 0,
     res |-> "pending"]

\* Main issues the awaited call of its line and suspends on it.
Issue ==
    /\ result = "running" /\ phase = "idle" /\ pc \in AwaitLines
    /\ phase' = "pending"
    /\ log' = Append(log, Call(pc))
    /\ closeCalls' = IF pc = 44 THEN closeCalls + 1 ELSE closeCalls
    /\ UNCHANGED <<pc, result, browser, handle, spawned, pages, navCount, dom,
                   submitted, doc, queue, emitted, consumed, value, files, ret>>

\* The last call of the log completed with r, having seen document d.
Answered(r, d) == [log EXCEPT ![Len(log)].res = r, ![Len(log)].seen = d]

\* What the browser does when it carries out the call of line l.
Effect(l) ==
    LET p == PageAt(l) IN
    CASE OpAt(l) = "new_page" ->
            \* the tab is created and its initial navigation started
            /\ pages' = [pages EXCEPT ![p] = "Navigating"]
            /\ navCount' = [navCount EXCEPT ![p] = 1]
            /\ UNCHANGED <<browser, submitted, value>>
      [] l = 90 ->
            \* form.submit() ran: a navigation of the page will start
            /\ submitted' = [submitted EXCEPT ![p] = TRUE]
            /\ value' = Undefined
            /\ UNCHANGED <<browser, pages, navCount>>
      [] l \in {98, 133} ->
            /\ value' = ScriptValue(l, p)
            /\ UNCHANGED <<browser, pages, navCount, submitted>>
      [] OpAt(l) = "close" ->
            \* the browser terminates: the connection and every tab with it
            /\ browser' = "closed"
            /\ pages' = [q \in Pages |-> IF pages[q] = "Absent" THEN "Absent" ELSE "Closed"]
            /\ UNCHANGED <<navCount, submitted, value>>
      [] OTHER ->
            UNCHANGED <<browser, pages, navCount, submitted, value>>

\* The handler, polled by the spawned task, delivers the response of the
\* pending call.  wait_for_navigation is answered once the page is loaded.
DeliverOk ==
    /\ handle = "running" /\ browser = "open" /\ phase = "pending"
    /\ OpAt(pc) = "wait_for_navigation" => pages[PageAt(pc)] = "Ready"
    /\ phase' = "ok"
    /\ log' = Answered("ok", IF PageAt(pc) \in Pages THEN dom[PageAt(pc)] ELSE 0)
    /\ Effect(pc)
    /\ UNCHANGED <<pc, result, handle, spawned, closeCalls, dom, doc, queue, emitted,
                   consumed, files, ret>>

\* The handler delivers an error for the pending call.
DeliverErr ==
    /\ handle = "running" /\ browser = "open" /\ phase = "pending"
    /\ phase' = "err"
    /\ log' = Answered("err", 0)
    /\ UNCHANGED <<pc, result, browser, handle, spawned, closeCalls, pages, navCount,
                   dom, submitted, doc, queue, emitted, consumed, value, files, ret>>

\* Main resumes with the response and goes on to the next statement.
ResumeOk ==
    /\ result = "running" /\ phase = "ok"
    /\ phase' = "idle"
    /\ pc' = NextLine(pc)
    /\ UNCHANGED <<result, browser, handle, spawned, closeCalls, pages, navCount, dom,
                   submitted, doc, queue, emitted, consumed, log, value, files, ret>>

\* Mutant of ResumeErr: the error of the call is dropped and main goes on.
ResumeErrSwallowed ==
    /\ result = "running" /\ phase = "err"
    /\ phase' = "idle"
    /\ pc' = NextLine(pc)
    /\ UNCHANGED <<result, browser, handle, spawned, closeCalls, pages, navCount, dom,
                   submitted, doc, queue, emitted, consumed, log, value, files, ret>>

\* Main resumes with the error: `?` returns it from the example and from main.
ResumeErr ==
    /\ result = "running" /\ phase = "err"
    /\ ReturnErr
    /\ UNCHANGED <<pc, spawned, closeCalls, pages, navCount, dom, submitted, doc,
                   queue, emitted, consumed, log, value, files>>

\* Lines 75, 84, 112: the sleep elapses.
Sleep ==
    /\ result = "running" /\ phase = "idle" /\ pc \in SleepLines
    /\ pc' = NextLine(pc)
    /\ UNCHANGED <<phase, result, browser, handle, spawned, closeCalls, pages, navCount,
                   dom, submitted, doc, queue, emitted, consumed, log, value, files, ret>>

\* Lines 99, 139: into_value()? converts the value of the evaluate before.
IntoValue ==
    /\ result = "running" /\ phase = "idle" /\ pc \in DecodeLines
    /\ IF IntoValueOk(pc, value)
       THEN /\ pc' = NextLine(pc)
            /\ ret' = IF pc = 99 THEN [ret EXCEPT !.title = StringOf(value)]
                               ELSE [ret EXCEPT !.books = VecStringOf(value)]
            /\ UNCHANGED <<phase, result, browser, handle>>
       ELSE /\ ReturnErr
            /\ UNCHANGED pc
    /\ UNCHANGED <<spawned, closeCalls, pages, navCount, dom, submitted, doc, queue,
                   emitted, consumed, log, value, files>>

\* Mutant of WriteFile: the error of std::fs::write is ignored.
WriteFileIgnored ==
    /\ result = "running" /\ phase = "idle" /\ pc = 118
    /\ \E ok \in BOOLEAN :
         /\ files' = IF ok THEN files + 1 ELSE files
         /\ pc' = NextLine(pc)
    /\ UNCHANGED <<phase, result, browser, handle, ret, spawned, closeCalls, pages,
                   navCount, dom, submitted, doc, queue, emitted, consumed, log, value>>

\* Line 118: std::fs::write(filename, screenshot_data)?.
WriteFile ==
    /\ result = "running" /\ phase = "idle" /\ pc = 118
    /\ \E ok \in BOOLEAN :
         IF ok
         THEN /\ files' = files + 1
              /\ pc' = NextLine(pc)
              /\ UNCHANGED <<phase, result, browser, handle, ret>>
         ELSE /\ ReturnErr
              /\ UNCHANGED <<pc, files>>
    /\ UNCHANGED <<spawned, closeCalls, pages, navCount, dom, submitted, doc, queue,
                   emitted, consumed, log, value>>

\* Lines 45-47: handle.await completes once the spawned task has ended;
\* main returns Ok(()).
Join ==
    /\ result = "running" /\ phase = "idle" /\ pc = 45
    /\ handle = "ended"
    /\ pc' = NextLine(pc)
    /\ result' = "ok"
    /\ UNCHANGED <<phase, browser, handle, spawned, closeCalls, pages, navCount, dom,
                   submitted, doc, queue, emitted, consumed, log, value, files, ret>>

\* Line 17, Some(_event): the loop takes the next item of the handler stream.
ConsumeEvent ==
    /\ handle = "running" /\ queue > 0
    /\ queue' = queue - 1
    /\ consumed' = consumed + 1
    /\ UNCHANGED <<pc, phase, result, browser, handle, spawned, closeCalls, pages,
                   navCount, dom, submitted, doc, emitted, log, value, files, ret>>

\* Line 17, None: the stream of a closed browser is exhausted, the loop and
\* the task end.
ConsumerEnd ==
    /\ handle = "running" /\ browser = "closed" /\ queue = 0
    /\ handle' = "ended"
    /\ UNCHANGED <<pc, phase, result, browser, spawned, closeCalls, pages, navCount,
                   dom, submitted, doc, queue, emitted, consumed, log, value, files, ret>>

\* The browser emits an event on the handler stream.
EmitEvent ==
    /\ browser = "open" /\ emitted < MaxEvents
    /\ emitted' = emitted + 1
    /\ queue' = queue + 1
    /\ UNCHANGED <<pc, phase, result, browser, handle, spawned, closeCalls, pages,
                   navCount, dom, submitted, doc, consumed, log, value, files, ret>>

\* The navigation of page p completes: its document is loaded.
PageLoad(p) ==
    /\ browser = "open" /\ pages[p] = "Navigating"
    /\ pages' = [pages EXCEPT ![p] = "Ready"]
    /\ dom' = [dom EXCEPT ![p] = navCount[p]]
    /\ IF p = 3 THEN doc' \in Docs ELSE UNCHANGED doc
    /\ UNCHANGED <<pc, phase, result, browser, handle, spawned, closeCalls, navCount,
                   submitted, queue, emitted, consumed, log, value, files, ret>>

\* The navigation requested by the form submit of line 91 starts on page p:
\* the page is loading again; the document of before stays until the new one
\* is loaded.
NavStart(p) ==
    /\ browser = "open" /\ submitted[p] /\ pages[p] \in {"Ready", "Navigating"}
    /\ submitted' = [submitted EXCEPT ![p] = FALSE]
    /\ pages' = [pages EXCEPT ![p] = "Navigating"]
    /\ navCount' = [navCount EXCEPT ![p] = navCount[p] + 1]
    /\ UNCHANGED <<pc, phase, result, browser, handle, spawned, closeCalls, dom, doc,
                   queue, emitted, consumed, log, value, files, ret>>

MainStep ==
    \/ CreateBrowser
    \/ Issue
    \/ ResumeOk
    \/ ResumeErr
    \/ Sleep
    \/ IntoValue
    \/ WriteFile
    \/ Join

Next ==
    \/ CreateBrowser
    \/ Issue
    \/ DeliverOk
    \/ DeliverErr
    \/ ResumeOk
    \/ ResumeErr
    \/ Sleep
    \/ IntoValue
    \/ WriteFile
    \/ Join
    \/ ConsumeEvent
    \/ ConsumerEnd
    \/ EmitEvent
    \/ \E p \in Pages : PageLoad(p)
    \/ \E p \in Pages : NavStart(p)

Spec == Init /\ [][Next]_vars

\* The scheduling the runtime gives: the main task and the spawned task run
\* when they can, and the handler delivers a response that is there.  The
\* browser owes nothing: it may never finish a load, never emit an event and
\* never fail a call.
FairSpec ==
    /\ Spec
    /\ WF_vars(MainStep)
    /\ WF_vars(DeliverOk)
    /\ WF_vars(ConsumeEvent)
    /\ WF_vars(ConsumerEnd)

\* The scheduling under which every browser call eventually returns: as
\* FairSpec, and every navigation that has started completes.
LiveSpec ==
    /\ FairSpec
    /\ \A p \in Pages : WF_vars(PageLoad(p))

TypeOK ==
    /\ pc \in {13, 45, 47, 118} \cup AwaitLines \cup SleepLines \cup DecodeLines
    /\ phase \in {"idle", "pending", "ok", "err"}
    /\ result \in {"running", "ok", "err"}
    /\ browser \in {"none", "open", "closed", "dropped"}
    /\ handle \in {"none", "running", "ended", "aborted"}
    /\ pages \in [Pages -> {"Absent", "Navigating", "Ready", "Closed"}]
    /\ doc \in Docs
    /\ queue \in 0..MaxEvents

----------------------------------------------------------------------------
\* Vocabulary of the properties.

\* The calls that interact with a page, extract from it or capture it.
InteractionOps == {"find_element", "click", "type_str", "evaluate", "screenshot"}

Calls == 1..Len(log)

OpenPages == {p \in Pages : pages[p] \in {"Navigating", "Ready"}}

WaitPending == phase = "pending" /\ pc \in WaitLines

FailedWait(i) == log[i].op = "wait_for_navigation" /\ log[i].res = "err"

HasFailedWait == \E i \in Calls : FailedWait(i)

----------------------------------------------------------------------------
\* C1: a find_element, click, type_str, evaluate or screenshot is issued on
\* a page only when the page has reached Ready since its most recent
\* navigation (a page is Ready exactly when it has, a navigation that starts
\* makes it Navigating again).
C1_IssuedOnReadyPage ==
    \A i \in Calls : log[i].op \in InteractionOps => log[i].state = "Ready"

\* C2: once the form is submitted, neither the wait_for_navigation of
\* line 95 completes on the first page still being loaded, nor does the
\* evaluate of line 98 read document.title of the first page.
C2_SubmitResetsReadiness ==
    \A i \in Calls :
        (log[i].line \in {95, 98} /\ log[i].res = "ok") => log[i].seen # 1

\* C3: every wait for navigation ends, with the page ready or with a
\* timeout error, whatever the browser does, so main eventually returns.
C3_WaitsAreBounded ==
    /\ [](WaitPending => <>(~WaitPending))
    /\ <>(result # "running")

\* C4: a failed wait_for_navigation leaves the page in the state it was in
\* (Navigating when it was awaited before the load) and no call is issued on
\* the page, or at all, after it: main returns the error.
C4_NoUseAfterFailedWait ==
    /\ [](\A i \in Calls : FailedWait(i) =>
              /\ i = Len(log)
              /\ phase \in {"err", "idle"}
              /\ phase = "idle" => result = "err")
    /\ [][(HasFailedWait' /\ ~HasFailedWait) => pages' = pages]_vars
    /\ [][HasFailedWait => log' = log]_vars

\* C4 witness: the wait of line 68 failed while page 1 was loading and main
\* returned the error.
C4_Witness ==
    /\ HasFailedWait /\ result = "err" /\ pc = 68 /\ pages[1] = "Navigating"

\* C5: when main has returned after create_browser succeeded, browser.close
\* was issued exactly once.
C5_ClosedExactlyOnce ==
    (result # "running" /\ browser # "none") => closeCalls = 1

\* C6: while the browser is open exactly one handler task runs; it was
\* spawned once, before the first call was issued.
C6_OneConsumerWhileOpen ==
    /\ browser = "open" => (handle = "running" /\ spawned = 1)
    /\ Len(log) > 0 => spawned = 1
    /\ spawned <= 1

\* C6 witness: the browser is open, the task runs and type_str is pending.
C6_Witness ==
    /\ browser = "open" /\ handle = "running" /\ spawned = 1
    /\ phase = "pending" /\ pc = 87

\* C7: every event the browser emitted is eventually consumed and every
\* command issued gets its response or an error: when nothing runs any more
\* (main has returned) no emitted event is left unconsumed and no command
\* is left pending.
C7_EventsDrainedCommandsAnswered ==
    result # "running" =>
        /\ consumed = emitted
        /\ \A i \in Calls : log[i].res # "pending"

\* C8: after browser.close completed the loop of line 17 consumes no
\* further event, the task ends, and every page of the browser is Closed.
C8_CloseStopsConsumer ==
    /\ [][browser = "closed" => consumed' = consumed]_vars
    /\ [](browser = "closed" => OpenPages = {})
    /\ [](result = "ok" => handle = "ended")

\* C9: every page is released when its example returns: no page is open
\* when an example starts, when browser.close is issued, or when main has
\* returned.
C9_PagesReleased ==
    (phase = "idle" /\ pc \in {65, 106, 127, 44}) => OpenPages = {}

\* C10: a type_str is issued right after a successful click on the same
\* handle, itself issued after the find_element that resolved the handle
\* succeeded, with no call on another handle and no navigation in between.
C10_ClickBeforeType ==
    \A i \in Calls : log[i].op = "type_str" =>
        /\ i > 2
        /\ log[i-1].op = "click" /\ log[i-1].res = "ok"
        /\ log[i-1].handle = log[i].handle
        /\ log[i-2].op = "find_element" /\ log[i-2].res = "ok"
        /\ log[i-2].handle = log[i].handle
        /\ log[i-2].nav = log[i].nav /\ log[i-1].nav = log[i].nav
        /\ log[i-2].page = log[i].page /\ log[i-1].page = log[i].page

\* C10 witness: type_str was issued on search_input and succeeded.
C10_Witness ==
    \E i \in Calls : log[i].op = "type_str" /\ log[i].handle = 2 /\ log[i].res = "ok"

----------------------------------------------------------------------------
\* The calls of a given method, and of a given line.
CallsOf(op) == {i \in Calls : log[i].op = op}

\* main failed at the statement of its line.
FailedAt(lines) == result = "err" /\ pc \in lines

\* The title attributes of the elements of a document, in document order.
DocTitles(d) == [i \in 1..Len(d) |-> d[i].title]

AllTitled(d) == \A i \in 1..Len(d) : d[i].title # Null

\* The example a call belongs to (4: the close of main).
Rank(c) == IF c.page = 0 THEN 4 ELSE c.page

----------------------------------------------------------------------------
\* C11: element resolution is retried: main returns the error of a
\* find_element only after more than one attempt at resolving the selector
\* failed.
C11_FindIsRetried ==
    \A i \in CallsOf("find_element") :
        (log[i].res = "err" /\ result = "err") =>
            Cardinality({j \in CallsOf("find_element") :
                             log[j].line = log[i].line /\ log[j].res = "err"}) > 1

\* C12: take_screenshot issues at most one screenshot, on a page that is
\* Ready after its wait_for_navigation succeeded; a failed capture ends the
\* example at once and writes no file; a file is written only after a
\* successful capture.
C12_CaptureOnceOnReadyPage ==
    /\ Cardinality(CallsOf("screenshot")) <= 1
    /\ \A i \in CallsOf("screenshot") :
          /\ log[i].state = "Ready"
          /\ \E j \in 1..(i - 1) : log[j].line = 109 /\ log[j].res = "ok"
          /\ log[i].res = "err" =>
                 (i = Len(log) /\ files = 0 /\ (phase = "err" \/ result = "err"))
    /\ files <= 1
    /\ files > 0 => \E i \in CallsOf("screenshot") : log[i].res = "ok"

\* C12 witness: the capture succeeded and its bytes were written.
C12_Witness ==
    /\ files = 1 /\ pc = 127
    /\ \E i \in CallsOf("screenshot") : log[i].res = "ok" /\ log[i].state = "Ready"

\* C13: when extract_books has returned Ok, its result is the sequence of
\* the title attributes of the matching elements, in document order and of
\* the same length (empty for no match); it fails at the conversion only
\* when some matching element has no title attribute.
C13_BooksInDocumentOrder ==
    /\ (result # "err" /\ pc \in {44, 45, 47}) =>
          (ret.books = DocTitles(doc) /\ Len(ret.books) = Len(doc))
    /\ FailedAt({139}) => ~AllTitled(doc)

\* C13 witness: extract_books returned the two different titles of a
\* two-element document.
C13_Witness ==
    /\ pc = 44 /\ result = "running"
    /\ Len(doc) = 2 /\ doc[1].title = "t2" /\ doc[2].title = "t1"
    /\ ret.books = <<"t2", "t1">>

\* C14: no failure is swallowed, and the error main returns tells a script
\* fault (a failed evaluate) from a decode fault (a failed into_value).
C14_FaultsAreClassified ==
    /\ \A i \in Calls : log[i].res = "err" => (phase = "err" \/ result = "err")
    /\ FailedAt({90, 98, 133}) => ret.error = "ScriptFault"
    /\ FailedAt(DecodeLines) => ret.error = "DecodeFault"

\* The transitions of a page that the state machine allows.
PageTransitions ==
    {<<"Absent", "Navigating">>, <<"Navigating", "Ready">>,
     <<"Ready", "Navigating">>, <<"Ready", "Closed">>}

\* C15: a page only goes Created -> Navigating -> Ready -> {Navigating,
\* Closed}, and no call is issued on a Closed page.
C15_PageStateMachine ==
    /\ [][\A p \in Pages :
             pages'[p] # pages[p] => <<pages[p], pages'[p]>> \in PageTransitions]_vars
    /\ [](\A i \in Calls : log[i].state # "Closed")

\* C16: browser.close is the last call main issues, and when it is issued
\* every call before it has been answered.
C16_CloseIsLast ==
    \A i \in CallsOf("close") :
        /\ i = Len(log)
        /\ \A j \in 1..(i - 1) : log[j].res = "ok"

\* C16 witness: browser.close was issued and answered.
C16_Witness ==
    \E i \in CallsOf("close") : log[i].res = "ok" /\ Len(log) > 1

\* C17: when every browser call eventually returns, main eventually
\* returns; it awaits the spawned task only once the browser is closed, and
\* returns Ok only after the task has ended.
C17_MainTerminates ==
    /\ <>(result # "running")
    /\ [](pc = 45 => browser = "closed")
    /\ [](result = "ok" => (handle = "ended" /\ browser = "closed" /\ closeCalls = 1))

\* C17 witness: main returned Ok after the task ended.
C17_Witness ==
    /\ result = "ok" /\ pc = 47 /\ handle = "ended" /\ browser = "closed"

\* C18: the calls are issued example by example, in the order
\* wikipedia_search, take_screenshot, extract_books, close; an example
\* starts only after the one before returned Ok; the first error is returned
\* from main and nothing is issued after it.
C18_InOrderUntilFirstError ==
    /\ [](\A i \in Calls :
             /\ i < Len(log) => log[i].res = "ok"
             /\ \A j \in 1..(i - 1) : Rank(log[j]) <= Rank(log[i])
             /\ log[i].line = 106 =>
                    /\ \E j \in 1..(i - 1) : log[j].line = 98 /\ log[j].res = "ok"
                    /\ ret.title # 0
             /\ log[i].line = 127 =>
                    /\ \E j \in 1..(i - 1) : log[j].line = 117 /\ log[j].res = "ok"
                    /\ files = 1
             /\ log[i].line = 44 =>
                    /\ \E j \in 1..(i - 1) : log[j].line = 133 /\ log[j].res = "ok"
                    /\ IntoVecString(value))
    /\ [](result = "err" => ret.error # "none")
    /\ [][result = "err" => log' = log]_vars

\* C18 witness: take_screenshot failed at writing the file; main returned
\* the error and extract_books was never started.
C18_Witness ==
    /\ FailedAt({118}) /\ ret.error # "none"
    /\ \A i \in Calls : log[i].page # 3 /\ log[i].op # "close"
====
